---- MODULE Spec2Model ----
(***************************************************************************)
(* Model of the spell card processor (src/process_spells.py).              *)
(*                                                                         *)
(* Text is a sequence of pieces.  A piece is one character ("a", "]")      *)
(* or a fixed literal fragment of the program that holds neither "]" nor   *)
(* ";" ("spells", ".pdf"), so that searching the text for the marker "];"  *)
(* is exact on the piece sequence.  Values read from the document are      *)
(* sequences of single characters.                                         *)
(***************************************************************************)
EXTENDS Integers, Sequences, FiniteSets, TLC

VARIABLES
    doc, file, artifacts, entries, skipped, level, school, classes, i, pc,
    prompted, accepted, appendCalls, appendArg, appendResult, file0, inserted,
    reported, fnFields, fnPrefix, fnArg, fnResult, fnDone

vars == <<doc, file, artifacts, entries, skipped, level, school, classes, i, pc,
          prompted, accepted, appendCalls, appendArg, appendResult, file0, inserted,
          reported, fnFields, fnPrefix, fnArg, fnResult, fnDone>>

(***************************************************************************)
(* Bounds                                                                  *)
(***************************************************************************)
MaxPages == 3

MaxRuns == 2

MaxContentLen == 4

MaxAnnots == 2

MaxNameLen == 4

(***************************************************************************)
(* Python values: None, str, int                                           *)
(***************************************************************************)
PyNone == [t |-> "none", s |-> <<>>, n |-> 0]

PyStr(s) == [t |-> "str", s |-> s, n |-> 0]

PyInt(n) == [t |-> "int", s |-> <<>>, n |-> n]

\* Python truth value: None, "" and 0 are false.
Truthy(v) == \/ (v.t = "str" /\ v.s # <<>>)
             \/ (v.t = "int" /\ v.n # 0)

\* x or y
PyOr(x, y) == IF Truthy(x) THEN x ELSE y

(***************************************************************************)
(* Characters                                                              *)
(***************************************************************************)
Whitespace == {" ", "\t"}

UpperCase == {"A", "L", "M"}

LowerCase == {"a", "b", "l", "m", "x"}

DigitChars == {"0", "1", "2", "3", "4", "5", "6", "7", "8", "9"}

\* str.lower() on one character
LowerChar(c) == CASE c = "A" -> "a"
                  [] c = "L" -> "l"
                  [] c = "M" -> "m"
                  [] OTHER -> c

DigitVal(c) == CASE c = "0" -> 0 [] c = "1" -> 1 [] c = "2" -> 2 [] c = "3" -> 3
                 [] c = "4" -> 4 [] c = "5" -> 5 [] c = "6" -> 6 [] c = "7" -> 7
                 [] c = "8" -> 8 [] c = "9" -> 9 [] OTHER -> 0

DigitOf(d) == CASE d = 0 -> "0" [] d = 1 -> "1" [] d = 2 -> "2" [] d = 3 -> "3"
                [] d = 4 -> "4" [] d = 5 -> "5" [] d = 6 -> "6" [] d = 7 -> "7"
                [] d = 8 -> "8" [] OTHER -> "9"

RECURSIVE LStrip(_)
LStrip(s) == IF s # <<>> /\ Head(s) \in Whitespace THEN LStrip(Tail(s)) ELSE s

RECURSIVE RStrip(_)
RStrip(s) == IF s # <<>> /\ s[Len(s)] \in Whitespace
             THEN RStrip(SubSeq(s, 1, Len(s) - 1)) ELSE s

\* str.strip()
Strip(s) == RStrip(LStrip(s))

\* str.startswith(prefix)
StartsWith(s, prefix) == /\ Len(s) >= Len(prefix)
                         /\ SubSeq(s, 1, Len(prefix)) = prefix

RECURSIVE Flatten(_)
Flatten(ss) == IF ss = <<>> THEN <<>> ELSE Head(ss) \o Flatten(Tail(ss))

\* sep.join(parts)
RECURSIVE Join(_, _)
Join(sep, parts) == IF parts = <<>> THEN <<>>
                    ELSE IF Len(parts) = 1 THEN parts[1]
                    ELSE parts[1] \o sep \o Join(sep, Tail(parts))

(***************************************************************************)
(* slugify                                                                 *)
(***************************************************************************)
SlugKeep(c) == c \in LowerCase \cup DigitChars \cup Whitespace \cup {"-"}

\* re.sub(r"[^a-z0-9\s-]", "", s)
RECURSIVE RemoveDisallowed(_)
RemoveDisallowed(s) == IF s = <<>> THEN <<>>
                       ELSE IF SlugKeep(Head(s)) THEN <<Head(s)>> \o RemoveDisallowed(Tail(s))
                       ELSE RemoveDisallowed(Tail(s))

\* re.sub(r"[\s]+", "-", s)
RECURSIVE CollapseWhitespace(_)
CollapseWhitespace(s) == IF s = <<>> THEN <<>>
                         ELSE IF Head(s) \in Whitespace
                              THEN <<"-">> \o CollapseWhitespace(LStrip(s))
                              ELSE <<Head(s)>> \o CollapseWhitespace(Tail(s))

Lower(s) == [k \in 1..Len(s) |-> LowerChar(s[k])]

slugify_noremove(name) == CollapseWhitespace(Lower(Strip(name)))

slugify(name) == CollapseWhitespace(RemoveDisallowed(Lower(Strip(name))))


(***************************************************************************)
(* get_form_field                                                          *)
(*                                                                         *)
(* An annotation is [T, V, hasParent, PT, PV]: its own /T and /V, whether  *)
(* it has a /Parent, and the parent's /T and /V (Python values).           *)
(***************************************************************************)
Annot(T, V) == [T |-> T, V |-> V, hasParent |-> FALSE, PT |-> PyNone, PV |-> PyNone]

ChildAnnot(T, V, PT, PV) == [T |-> T, V |-> V, hasParent |-> TRUE, PT |-> PT, PV |-> PV]

\* field_name = annot.get("/T", ""), else the parent's /T
FieldName(annot) == IF ~Truthy(annot.T) /\ annot.hasParent THEN annot.PT ELSE annot.T

\* isinstance(field_name, str) and field_name.startswith(prefix)
FieldMatches(annot, prefix) == /\ FieldName(annot).t = "str"
                               /\ StartsWith(FieldName(annot).s, prefix)

\* val = annot.get("/V"), else the parent's /V
FieldValue(annot) == IF ~Truthy(annot.V) /\ annot.hasParent THEN annot.PV ELSE annot.V

\* str(val).strip()
StrOf(val) == PyStr(Strip(val.s))

RECURSIVE get_form_field_firstmatch(_, _)
get_form_field_firstmatch(fields, prefix) ==
    IF fields = <<>> THEN PyNone
    ELSE IF FieldMatches(Head(fields), prefix)
         THEN (IF FieldValue(Head(fields)) # PyNone THEN StrOf(FieldValue(Head(fields))) ELSE PyNone)
         ELSE get_form_field_firstmatch(Tail(fields), prefix)

RECURSIVE get_form_field(_, _)
get_form_field(fields, prefix) ==
    IF fields = <<>> THEN PyNone
    ELSE IF FieldMatches(Head(fields), prefix) /\ FieldValue(Head(fields)) # PyNone
         THEN StrOf(FieldValue(Head(fields)))
         ELSE get_form_field(Tail(fields), prefix)

NamePrefix == <<"N", "a", "m", "e", "_">>

PNamePrefix == <<"P", "N", "a", "m", "e", "_">>

SchoolPrefix == <<"S", "c", "h", "o", "o", "l", "_">>

LevelPrefix == <<"L", "e", "v", "e", "l", "_">>

(***************************************************************************)
(* int(level)                                                              *)
(***************************************************************************)
AllDigits(s) == s # <<>> /\ \A k \in 1..Len(s) : s[k] \in DigitChars

RECURSIVE DigitsValue(_)
DigitsValue(s) == IF s = <<>> THEN 0
                  ELSE 10 * DigitsValue(SubSeq(s, 1, Len(s) - 1)) + DigitVal(s[Len(s)])

Unsigned(s) == IF s # <<>> /\ Head(s) \in {"+", "-"} THEN Tail(s) ELSE s

IntOk_lenient(v) == TRUE

\* int(v) returns: v is an int, or a str holding an optionally signed decimal number
IntOk(v) == \/ v.t = "int"
            \/ (v.t = "str" /\ AllDigits(Unsigned(Strip(v.s))))

\* the value of int(v) when it returns
IntOf(v) == IF v.t = "int" THEN v.n
            ELSE IF v.t = "str" /\ AllDigits(Unsigned(Strip(v.s)))
                 THEN (IF Head(Strip(v.s)) = "-" THEN 0 - DigitsValue(Unsigned(Strip(v.s)))
                       ELSE DigitsValue(Unsigned(Strip(v.s))))
                 ELSE 0

\* str(n) of an int
RECURSIVE NatStr(_)
NatStr(n) == IF n < 10 THEN <<DigitOf(n)>> ELSE NatStr(n \div 10) \o <<DigitOf(n % 10)>>

IntStr(n) == IF n < 0 THEN <<"-">> \o NatStr(0 - n) ELSE NatStr(n)

(***************************************************************************)
(* ask_classes                                                             *)
(***************************************************************************)
CLASSES == <<"Barbarian", "Bard", "Cleric", "Druid", "Fighter", "Monk", "Paladin",
             "Ranger", "Rogue", "Sorcerer", "Warlock", "Wizard", "Artificer">>

\* the longest run of digits at the head of s
RECURSIVE DigitRun(_)
DigitRun(s) == IF s # <<>> /\ Head(s) \in DigitChars THEN <<Head(s)>> \o DigitRun(Tail(s))
               ELSE <<>>

\* re.findall(r"\d+", raw)
RECURSIVE FindDigitRuns(_)
FindDigitRuns(s) == IF s = <<>> THEN <<>>
                    ELSE IF Head(s) \in DigitChars
                         THEN <<DigitRun(s)>> \o FindDigitRuns(SubSeq(s, Len(DigitRun(s)) + 1, Len(s)))
                         ELSE FindDigitRuns(Tail(s))

RECURSIVE SelectClasses(_)
SelectClasses(indices) ==
    IF indices = <<>> THEN <<>>
    ELSE LET idx == DigitsValue(Head(indices)) - 1
         IN  (IF 0 <= idx /\ idx < Len(CLASSES) THEN <<CLASSES[idx + 1]>> ELSE <<>>)
             \o SelectClasses(Tail(indices))

ask_classes(raw) == IF Strip(raw) = <<>> THEN <<>> ELSE SelectClasses(FindDigitRuns(Strip(raw)))


(***************************************************************************)
(* append_to_spells_js                                                     *)
(***************************************************************************)
SPELLS_PDF_DIR == <<"spells">>

IMAGES_DIR == <<"images">>

HIRES_DIR == <<"high_res_images">>

Quote == <<"\"">>

\* ", ".join(f'"{c}"' for c in e["classes"])
ClassesStr(cls) == Join(<<", ">>, [k \in 1..Len(cls) |-> Quote \o <<cls[k]>> \o Quote])

\* the JS line of one entry
Line(e) == <<"  { name: ">> \o Quote \o e.name \o Quote
           \o <<", level: ">> \o IntStr(e.level)
           \o <<", school: ">> \o Quote \o e.school \o Quote
           \o <<", classes: [">> \o ClassesStr(e.classes) \o <<"]">>
           \o <<", image: ">> \o Quote \o e.image \o Quote
           \o <<", pdf: ">> \o Quote \o e.pdf \o Quote \o <<" },">>

\* insert_text = "\n".join(new_lines) + "\n"
InsertText(es) == Join(<<"\n">>, [k \in 1..Len(es) |-> Line(es[k])]) \o <<"\n">>

IsMarkerAt(content, p) == /\ 1 <= p /\ p < Len(content)
                          /\ content[p] = "]" /\ content[p + 1] = ";"

RECURSIVE FindFrom(_, _)
FindFrom(content, p) == IF p >= Len(content) THEN 0
                        ELSE IF IsMarkerAt(content, p) THEN p
                        ELSE FindFrom(content, p + 1)

\* content.find("];"): the first marker
Find(content) == FindFrom(content, 1)

RECURSIVE RFindFrom(_, _)
RFindFrom(content, p) == IF p < 1 THEN 0
                         ELSE IF IsMarkerAt(content, p) THEN p
                         ELSE RFindFrom(content, p - 1)

\* content.rfind("];"): the position of the last marker, 0 when there is none
RFind(content) == RFindFrom(content, Len(content) - 1)

FileAbsent == [exists |-> FALSE, content |-> <<>>]

FileOf(content) == [exists |-> TRUE, content |-> content]

\* "const SPELLS = [\n];\n"
EmptyCollection == <<"const SPELLS = [", "\n", "]", ";", "\n">>

\* the content append_to_spells_js reads, after creating the file when it is absent
ReadContent(f) == IF f.exists THEN f.content ELSE EmptyCollection

Splice(content, pos, text) ==
    SubSeq(content, 1, pos - 1) \o text \o SubSeq(content, pos, Len(content))

append_to_spells_js_first(f, es) ==
    LET content == ReadContent(f)
        pos == Find(content)
    IN  IF pos = 0 THEN [file |-> FileOf(content), result |-> "format-not-found"]
        ELSE [file |-> FileOf(Splice(content, pos, InsertText(es))), result |-> "added"]

append_to_spells_js_truncating(f, es) ==
    LET content == ReadContent(f)
        pos == RFind(content)
    IN  IF pos = 0 THEN [file |-> FileOf(InsertText(es)), result |-> "added"]
        ELSE [file |-> FileOf(Splice(content, pos, InsertText(es))), result |-> "added"]

\* the file after the call, and what the call reported
append_to_spells_js(f, es) ==
    LET content == ReadContent(f)
        pos == RFind(content)
    IN  IF pos = 0 THEN [file |-> FileOf(content), result |-> "format-not-found"]
        ELSE [file |-> FileOf(Splice(content, pos, InsertText(es))), result |-> "added"]


(***************************************************************************)
(* The documents of the model                                              *)
(***************************************************************************)
NameF == PyStr(NamePrefix \o <<"F", "0", "0">>)

PNameF == PyStr(PNamePrefix \o <<"F">>)

SchoolF == PyStr(SchoolPrefix)

LevelF == PyStr(LevelPrefix \o <<"1">>)

MagicMissile == PyStr(<<"M", " ", "m">>)

Light == PyStr(<<"L">>)

Evocation == PyStr(<<"A", "b">>)

PageFull == <<Annot(NameF, MagicMissile), Annot(SchoolF, Evocation),
              Annot(LevelF, PyStr(<<"1">>))>>

\* the name lives on the parent field; no School_ field
PageFullNoSchool == <<ChildAnnot(PyNone, PyNone, NameF, PyStr(<<"a">>)),
                      Annot(LevelF, PyStr(<<" ", "3">>))>>

PageFullBadLevel == <<Annot(NameF, PyStr(<<"b">>)), Annot(LevelF, PyStr(<<"x">>))>>

PageFullNoLevel == <<Annot(NameF, MagicMissile), Annot(SchoolF, Evocation)>>

PageNameOnly == <<Annot(PNameF, Light)>>

PageBoth == <<Annot(NameF, MagicMissile), Annot(PNameF, Light),
              Annot(LevelF, PyStr(<<"2">>))>>

PageBlank == <<>>

\* no name field, but a level and a school
PageNoName == <<Annot(SchoolF, PyStr(<<"b">>)), Annot(LevelF, PyStr(<<"2">>))>>

\* a Name_ field holding only whitespace
PageEmptyName == <<Annot(NameF, PyStr(<<" ">>)), Annot(LevelF, PyStr(<<"1">>))>>

\* a document is a sequence of page kinds; Fields gives a page's annotations
PageKinds == {"Full", "FullNoSchool", "FullBadLevel", "FullNoLevel",
              "NameOnly", "Both", "Blank", "NoName", "EmptyName"}

Fields(kind) == CASE kind = "Full" -> PageFull
                  [] kind = "FullNoSchool" -> PageFullNoSchool
                  [] kind = "FullBadLevel" -> PageFullBadLevel
                  [] kind = "FullNoLevel" -> PageFullNoLevel
                  [] kind = "NameOnly" -> PageNameOnly
                  [] kind = "Both" -> PageBoth
                  [] kind = "NoName" -> PageNoName
                  [] kind = "EmptyName" -> PageEmptyName
                  [] OTHER -> PageBlank

SeqsUpTo(S, n) == UNION {[1..k -> S] : k \in 0..n}

Docs == SeqsUpTo(PageKinds, MaxPages)

\* what the operator types at the prompt
RawInputs == {<<>>, <<" ", "1", "0", " ", "1", "2", "x", "1", "4">>}

InitialFiles == {FileAbsent, FileOf(EmptyCollection), FileOf(<<"const SPELLS = [", "\n", "]">>)}

(***************************************************************************)
(* The page loop                                                           *)
(***************************************************************************)
IsSkip_pname(name, pname) == ~Truthy(pname)

\* not (name or pname)
IsSkip(name, pname) == ~(Truthy(name) \/ Truthy(pname))

\* slug = name
Slug(name) == name

\* f"{dir}/{slug}{ext}"
PathOf(dir, slug, ext) == dir \o <<"/">> \o slug \o <<ext>>

\* One iteration of the loop over reader.pages, as far as its last statement
\* that can raise.  lvl, sch are the loop-carried level and school.
Resolve(page, lvl, sch) ==
    LET name0 == get_form_field(page, NamePrefix)
        pname == get_form_field(page, PNamePrefix)
        full  == ~Truthy(pname)
        name  == IF full THEN name0 ELSE pname
        sch1  == IF full THEN get_form_field(page, SchoolPrefix) ELSE sch
        lvl1  == IF full THEN get_form_field(page, LevelPrefix) ELSE lvl
        skip  == IsSkip(name, pname)
    IN  [name |-> name, pname |-> pname, full |-> full, skip |-> skip,
         level |-> lvl1, school |-> sch1,
         fatal |-> ~skip /\ ~IntOk(lvl1)]

Entry(name, lvl, sch, cls, img_out, pdf_out) ==
    [name |-> name, level |-> lvl, school |-> sch, classes |-> cls,
     image |-> img_out, pdf |-> pdf_out]

ArtifactsOf(slug) == {PathOf(SPELLS_PDF_DIR, slug, ".pdf"),
                      PathOf(IMAGES_DIR, slug, ".webp"),
                      PathOf(HIRES_DIR, slug, ".png")}

fnVars == <<fnFields, fnPrefix, fnArg, fnResult, fnDone>>

appendGhosts == <<file0, inserted>>

\* the page has no resolvable name
SkipPage ==
    /\ pc = "PerPage" /\ i < Len(doc)
    /\ LET r == Resolve(Fields(doc[i + 1]), level, school)
       IN  /\ r.skip
           /\ level' = r.level
           /\ school' = r.school
           /\ skipped' = skipped + 1
           /\ i' = i + 1
    /\ UNCHANGED <<doc, file, artifacts, entries, classes, pc, prompted, accepted,
                   appendCalls, appendArg, appendResult, reported>>
    /\ UNCHANGED <<fnVars, appendGhosts>>

\* level = int(level) raises
FailPage ==
    /\ pc = "PerPage" /\ i < Len(doc)
    /\ LET r == Resolve(Fields(doc[i + 1]), level, school)
       IN  /\ r.fatal
           /\ level' = r.level
           /\ school' = r.school
           /\ pc' = "Failed"
    /\ UNCHANGED <<doc, file, artifacts, entries, skipped, classes, i, prompted, accepted,
                   appendCalls, appendArg, appendResult, reported>>
    /\ UNCHANGED <<fnVars, appendGhosts>>

\* if not pname: classes = ask_classes(name)
ClassesFor(full, raw, cls) == IF full THEN ask_classes(raw) ELSE cls

\* the page yields a record
AcceptPage ==
    /\ pc = "PerPage" /\ i < Len(doc)
    /\ LET r    == Resolve(Fields(doc[i + 1]), level, school)
           lvl2 == IntOf(r.level)
           sch2 == PyOr(r.school, PyStr(<<"U", "n", "k", "n", "o", "w", "n">>))
           slug == Slug(r.name.s)
       IN  /\ ~r.skip /\ ~r.fatal
           /\ level' = PyInt(lvl2)
           /\ school' = sch2
           /\ artifacts' = artifacts \cup ArtifactsOf(slug)
           /\ \E raw \in RawInputs : classes' = ClassesFor(r.full, raw, classes)
           /\ prompted' = IF r.full THEN Append(prompted, i + 1) ELSE prompted
           /\ entries' = Append(entries,
                                Entry(r.name.s, lvl2, sch2.s, classes',
                                      PathOf(IMAGES_DIR, slug, ".webp"),
                                      PathOf(SPELLS_PDF_DIR, slug, ".pdf")))
           /\ accepted' = Append(accepted, i + 1)
           /\ i' = i + 1
    /\ UNCHANGED <<doc, file, skipped, pc, appendCalls, appendArg, appendResult, reported>>
    /\ UNCHANGED <<fnVars, appendGhosts>>

NeedsAppend_always(es) == TRUE

\* if entries:
NeedsAppend(es) == es # <<>>

\* the loop is over: write to spells.js
Finalize ==
    /\ pc = "PerPage" /\ i = Len(doc)
    /\ IF NeedsAppend(entries)
       THEN /\ file' = append_to_spells_js(file, entries).file
            /\ appendResult' = append_to_spells_js(file, entries).result
            /\ appendCalls' = appendCalls + 1
            /\ appendArg' = entries
       ELSE UNCHANGED <<file, appendResult, appendCalls, appendArg>>
    /\ pc' = "Finalized"
    /\ UNCHANGED <<doc, artifacts, entries, skipped, level, school, classes, i, prompted,
                   accepted, reported>>
    /\ UNCHANGED <<fnVars, appendGhosts>>

\* print "Done! n spells processed, k skipped."
Report ==
    /\ pc = "Finalized"
    /\ reported' = <<Len(entries), skipped>>
    /\ pc' = "Done"
    /\ UNCHANGED <<doc, file, artifacts, entries, skipped, level, school, classes, i,
                   prompted, accepted, appendCalls, appendArg, appendResult>>
    /\ UNCHANGED <<fnVars, appendGhosts>>

FnIdle == /\ fnFields = <<>> /\ fnPrefix = <<>> /\ fnArg = <<>>
          /\ fnResult = PyNone /\ fnDone = FALSE

DriverIdle == /\ doc = <<>> /\ artifacts = {} /\ entries = <<>> /\ skipped = 0
              /\ level = PyInt(0) /\ school = PyStr(<<>>) /\ classes = <<>>
              /\ i = 0 /\ prompted = <<>> /\ accepted = <<>> /\ reported = <<>>

Init ==
    /\ doc \in Docs
    /\ file \in InitialFiles
    /\ artifacts = {}
    /\ entries = <<>>
    /\ skipped = 0
    /\ level = PyInt(0)
    /\ school = PyStr(<<>>)
    /\ classes = <<>>
    /\ i = 0
    /\ pc = "PerPage"
    /\ prompted = <<>> /\ accepted = <<>> /\ reported = <<>>
    /\ appendCalls = 0 /\ appendArg = <<>> /\ appendResult = "none"
    /\ file0 = file /\ inserted = <<>>
    /\ FnIdle

Next == SkipPage \/ FailPage \/ AcceptPage \/ Finalize \/ Report

Spec == Init /\ [][Next]_vars

\* the script runs to its end unless it raises
FairSpec == Spec /\ WF_vars(Next)


(***************************************************************************)
(* Repeated runs of the collection appender on one collection file         *)
(***************************************************************************)
ContentChars == {"]", ";", "x"}

AppendFiles == {FileAbsent} \cup {FileOf(c) : c \in SeqsUpTo(ContentChars, MaxContentLen)}

EntryA == Entry(<<"a">>, 1, <<"A", "b">>, <<"Sorcerer", "Wizard">>,
                PathOf(IMAGES_DIR, <<"a">>, ".webp"), PathOf(SPELLS_PDF_DIR, <<"a">>, ".pdf"))

\* a record whose name holds the marker's characters
EntryB == Entry(<<"]", ";">>, 0, <<"U", "n", "k", "n", "o", "w", "n">>, <<>>,
                PathOf(IMAGES_DIR, <<"]", ";">>, ".webp"),
                PathOf(SPELLS_PDF_DIR, <<"]", ";">>, ".pdf"))

\* the batches a run hands over: never empty (if entries:)
Batches == {<<EntryA>>, <<EntryB>>, <<EntryA, EntryB>>, <<EntryB, EntryA>>}

AppendRun ==
    /\ pc = "Append" /\ appendCalls < MaxRuns
    /\ \E es \in Batches :
         /\ file' = append_to_spells_js(file, es).file
         /\ appendResult' = append_to_spells_js(file, es).result
         /\ appendArg' = es
         /\ inserted' = IF append_to_spells_js(file, es).result = "added"
                        THEN Append(inserted, es) ELSE inserted
    /\ appendCalls' = appendCalls + 1
    /\ UNCHANGED <<doc, artifacts, entries, skipped, level, school, classes, i, pc,
                   prompted, accepted, reported, file0>>
    /\ UNCHANGED fnVars

InitAppend ==
    /\ file \in AppendFiles
    /\ file0 = file /\ inserted = <<>>
    /\ appendCalls = 0 /\ appendArg = <<>> /\ appendResult = "none"
    /\ pc = "Append"
    /\ DriverIdle
    /\ FnIdle

NextAppend == AppendRun

SpecAppend == InitAppend /\ [][NextAppend]_vars

(***************************************************************************)
(* get_form_field and slugify on bounded inputs                            *)
(***************************************************************************)
driverVars == <<doc, file, artifacts, entries, skipped, level, school, classes, i, pc,
                prompted, accepted, appendCalls, appendArg, appendResult, file0,
                inserted, reported>>

FnDriverIdle == /\ DriverIdle /\ file = FileAbsent /\ file0 = FileAbsent
                /\ inserted = <<>> /\ appendCalls = 0 /\ appendArg = <<>>
                /\ appendResult = "none" /\ pc = "Call"

OwnNames == {PyNone, PyStr(<<>>), NameF, PNameF}

OwnValues == {PyNone, PyStr(<<>>), PyStr(<<" ", "a">>)}

ParentNames == {PyNone, PyStr(NamePrefix)}

ParentValues == {PyNone, PyStr(<<"b", " ">>)}

AnnotKinds == {Annot(T, V) : T \in OwnNames, V \in OwnValues}
              \cup {ChildAnnot(T, V, x[1], x[2]) :
                      T \in OwnNames, V \in OwnValues, x \in ParentNames \X ParentValues}

InitResolver ==
    /\ fnFields \in SeqsUpTo(AnnotKinds, MaxAnnots)
    /\ fnPrefix \in {NamePrefix, PNamePrefix}
    /\ fnArg = <<>> /\ fnResult = PyNone /\ fnDone = FALSE
    /\ FnDriverIdle

CallGetFormField ==
    /\ ~fnDone
    /\ fnResult' = get_form_field(fnFields, fnPrefix)
    /\ fnDone' = TRUE
    /\ UNCHANGED <<fnFields, fnPrefix, fnArg>>
    /\ UNCHANGED driverVars

NextResolver == CallGetFormField

SpecResolver == InitResolver /\ [][NextResolver]_vars

SlugChars == {"A", "a", "1", " ", "-", "!"}

InitSlug ==
    /\ fnArg \in SeqsUpTo(SlugChars, MaxNameLen)
    /\ fnFields = <<>> /\ fnPrefix = <<>> /\ fnResult = PyNone /\ fnDone = FALSE
    /\ FnDriverIdle

CallSlugify ==
    /\ ~fnDone
    /\ fnResult' = PyStr(slugify(fnArg))
    /\ fnDone' = TRUE
    /\ UNCHANGED <<fnFields, fnPrefix, fnArg>>
    /\ UNCHANGED driverVars

NextSlug == CallSlugify

SpecSlug == InitSlug /\ [][NextSlug]_vars


(***************************************************************************)
(* Properties                                                              *)
(***************************************************************************)
\* the variant of a page, from its fields
NameResolves(page) == Truthy(get_form_field(page, NamePrefix))

PNameResolves(page) == Truthy(get_form_field(page, PNamePrefix))

IsNameOnlyPage(page) == PNameResolves(page)

IsFullPage(page) == ~PNameResolves(page) /\ NameResolves(page)

IsUnresolvedPage(page) == ~PNameResolves(page) /\ ~NameResolves(page)

AtPage == pc = "PerPage" /\ i < Len(doc)

\* C1: the record's pdf and image fields and the three artifact paths of every
\* accepted page are built from slugify(name).
C1_PathsFromSlug ==
    \A k \in DOMAIN entries :
        /\ entries[k].pdf = PathOf(SPELLS_PDF_DIR, slugify(entries[k].name), ".pdf")
        /\ entries[k].image = PathOf(IMAGES_DIR, slugify(entries[k].name), ".webp")
        /\ ArtifactsOf(slugify(entries[k].name)) \subseteq artifacts

\* C2: a page is skipped exactly when neither Name_ nor PName_ resolves to a
\* non-empty value; a skipped page adds no record and 1 to the skip counter and
\* the loop goes on; every other page that completes adds one record with a
\* non-empty name; at Done, records + skipped = pages.
C2_SkipExactlyUnresolved ==
    [][ /\ AtPage /\ IsUnresolvedPage(Fields(doc[i + 1])) =>
             /\ entries' = entries /\ skipped' = skipped + 1
             /\ i' = i + 1 /\ pc' = "PerPage"
        /\ AtPage /\ ~IsUnresolvedPage(Fields(doc[i + 1])) /\ pc' # "Failed" =>
             /\ Len(entries') = Len(entries) + 1
             /\ SubSeq(entries', 1, Len(entries)) = entries
             /\ entries'[Len(entries')].name # <<>>
             /\ skipped' = skipped /\ i' = i + 1 /\ pc' = "PerPage"
        /\ pc' = "Done" =>
             /\ Len(entries') + skipped' = Len(doc')
             /\ reported' = <<Len(entries'), skipped'>>
      ]_vars

C2_Witness == /\ pc = "Done" /\ Len(doc) = 3 /\ skipped = 1 /\ Len(entries) = 2
              /\ IsUnresolvedPage(Fields(doc[2]))

\* C3: the prompt is shown only for Full pages, and the record of every NameOnly
\* page has no classes.
C3_NameOnlyHasNoClasses ==
    /\ \A k \in DOMAIN prompted : IsFullPage(Fields(doc[prompted[k]]))
    /\ \A k \in DOMAIN entries :
         IsNameOnlyPage(Fields(doc[accepted[k]])) => entries[k].classes = <<>>

\* the last marker of a content, stated on its characters
HasMarker(c) == \E p \in 1..(Len(c) - 1) : c[p] = "]" /\ c[p + 1] = ";"

LastMarker(c) == CHOOSE p \in 1..(Len(c) - 1) :
                    /\ c[p] = "]" /\ c[p + 1] = ";"
                    /\ \A q \in (p + 1)..(Len(c) - 1) : ~(c[q] = "]" /\ c[q + 1] = ";")

Before(c) == SubSeq(c, 1, LastMarker(c) - 1)

FromMarker(c) == SubSeq(c, LastMarker(c), Len(c))

RecordsText(es) == Flatten([k \in DOMAIN es |-> Line(es[k]) \o <<"\n">>])

Collection(f) == IF f.exists THEN f.content
                 ELSE <<"const SPELLS = [", "\n", "]", ";", "\n">>

\* C4: a call of append_to_spells_js on a collection that holds the marker "];"
\* (created as "const SPELLS = [\n];\n" when absent) inserts the text of the new
\* records, in input order, right before the last marker and changes nothing
\* else; so after any number of runs the file is the first content with every
\* run's records, in order, before its last marker.
C4_AppendOnly ==
    [][ HasMarker(Collection(file)) =>
          /\ file'.exists
          /\ file'.content = Before(Collection(file)) \o RecordsText(appendArg')
                             \o FromMarker(Collection(file))
          /\ file'.content = Before(Collection(file0))
                             \o Flatten([k \in DOMAIN inserted' |-> RecordsText(inserted'[k])])
                             \o FromMarker(Collection(file0))
      ]_vars

C4_Witness == /\ appendCalls = 2 /\ Len(inserted) = 2
              /\ file0.exists /\ file0.content = <<"]", ";", "]", ";">>
              /\ inserted[1] = <<EntryB, EntryA>>

\* a level that is absent or holds something else than a number
NonNumeric(v) == \/ v.t = "none"
                 \/ v.s = <<>>
                 \/ \E k \in DOMAIN v.s : v.s[k] \notin DigitChars \cup {"+", "-"}

IsBadLevelPage(page) == IsFullPage(page) /\ NonNumeric(get_form_field(page, LevelPrefix))

\* C5: a Full page with a resolved name and an absent or non-numeric Level_ ends
\* the run at that page: nothing of the page is written, the appender is never
\* called, the collection stays as it was, earlier artifacts and records stay,
\* and no step follows.
C5_FatalLevelHalts ==
    [][ /\ pc # "Failed"
        /\ AtPage /\ IsBadLevelPage(Fields(doc[i + 1])) =>
             /\ pc' = "Failed" /\ i' = i
             /\ artifacts' = artifacts /\ entries' = entries /\ skipped' = skipped
             /\ file' = file0 /\ appendCalls' = 0 /\ reported' = <<>>
      ]_vars

C5_Witness == /\ pc = "Failed" /\ i = 1 /\ Len(doc) = 3 /\ Len(entries) = 1
              /\ artifacts = ArtifactsOf(entries[1].name)
              /\ IsBadLevelPage(Fields(doc[2]))
              /\ file = file0

\* C6: when the existing collection holds no marker, the appender returns without
\* writing: the file and the artifacts stay as they are and the run goes on to
\* Done.
C6_FormatNotFoundRecovered ==
    [][ /\ (pc = "PerPage" /\ i = Len(doc) /\ entries # <<>>
              /\ file.exists /\ ~HasMarker(file.content)) =>
             /\ file' = file /\ artifacts' = artifacts /\ entries' = entries
             /\ appendResult' = "format-not-found"
             /\ pc' = "Finalized"
        /\ (pc = "Finalized") => (pc' = "Done" /\ file' = file /\ artifacts' = artifacts)
      ]_vars
    /\ [](pc = "Finalized" => ENABLED Report)

C6_Witness == /\ pc = "Done" /\ appendResult = "format-not-found"
              /\ file = file0 /\ ~HasMarker(file.content)
              /\ Len(entries) = 2 /\ Cardinality(artifacts) >= 3

\* C7 as stated: once the pages are processed the appender has been called exactly
\* once, with the whole batch, also when the batch is empty; never while pages are
\* being processed.
C7_AppendOnceAlways ==
    /\ pc = "PerPage" => appendCalls = 0
    /\ pc \in {"Finalized", "Done"} => (appendCalls = 1 /\ appendArg = entries)

\* C7 amended: once the pages are processed the appender has been called exactly
\* once, with the whole batch in page order, when the batch is not empty, and not
\* at all when it is empty; never while pages are being processed.
C7_AppendOnceIfEntries ==
    /\ pc = "PerPage" => appendCalls = 0
    /\ pc \in {"Finalized", "Done"} =>
         /\ Len(accepted) = Len(entries)
         /\ \A k, l \in DOMAIN accepted : k < l => accepted[k] < accepted[l]
         /\ IF entries # <<>> THEN appendCalls = 1 /\ appendArg = entries
            ELSE appendCalls = 0 /\ file = file0

C7_Witness == /\ pc = "Done" /\ appendCalls = 1 /\ Len(entries) = 2 /\ skipped = 1
              /\ appendArg = entries /\ appendResult = "added"

C7_WitnessEmpty == pc = "Done" /\ entries = <<>> /\ skipped = 2 /\ appendCalls = 0


\* the entries of a page that the field resolver looks at: identifier and value,
\* own or else the parent's
EntryIdent(a) == IF a.T.t = "str" /\ a.T.s # <<>> THEN a.T
                 ELSE IF a.hasParent THEN a.PT ELSE a.T

EntryMatches(a, prefix) ==
    /\ EntryIdent(a).t = "str"
    /\ Len(EntryIdent(a).s) >= Len(prefix)
    /\ \A k \in DOMAIN prefix : EntryIdent(a).s[k] = prefix[k]

\* the entry's own value or, when it has none, its parent's
EntryValue(a) == IF a.V.t = "str" /\ a.V.s # <<>> THEN a.V
                 ELSE IF a.hasParent THEN a.PV ELSE a.V

Trimmed(v) == PyStr(Strip(v.s))

Matching(fields, prefix) == {k \in DOMAIN fields : EntryMatches(fields[k], prefix)}

WithValue(fields, prefix) ==
    {k \in Matching(fields, prefix) : EntryValue(fields[k]) # PyNone}

Min(S) == CHOOSE k \in S : \A l \in S : k <= l

\* C8 as stated: the result is the trimmed value of the first matching entry, and
\* absent when that entry has no value (own or parent's) or when no entry matches.
C8_FirstMatchOnly ==
    fnDone =>
        fnResult = IF Matching(fnFields, fnPrefix) = {} THEN PyNone
                   ELSE IF EntryValue(fnFields[Min(Matching(fnFields, fnPrefix))]) = PyNone
                        THEN PyNone
                        ELSE Trimmed(EntryValue(fnFields[Min(Matching(fnFields, fnPrefix))]))

\* C8 amended: the result is the trimmed value of the first matching entry that
\* has a value (own or parent's); matching entries without one are passed over;
\* absent when no matching entry has a value.
C8_FirstMatchWithValue ==
    fnDone =>
        fnResult = IF WithValue(fnFields, fnPrefix) = {} THEN PyNone
                   ELSE Trimmed(EntryValue(fnFields[Min(WithValue(fnFields, fnPrefix))]))

C8_Witness ==
    /\ fnDone /\ fnPrefix = NamePrefix /\ Len(fnFields) = 2
    /\ Matching(fnFields, fnPrefix) = {1, 2}
    /\ EntryValue(fnFields[1]) = PyNone
    /\ fnFields[2].V = PyNone /\ fnFields[2].PV = PyStr(<<"b", " ">>)
    /\ fnResult = PyStr(<<"b">>)

\* shapes of a slug and of its input
SlugCharsOnly(r) == \A k \in DOMAIN r : r[k] \in LowerCase \cup DigitChars \cup {"-"}

NoEdgeHyphen(r) == r = <<>> \/ (r[1] # "-" /\ r[Len(r)] # "-")

IsTrimmed(x) == x = <<>> \/ (x[1] \notin Whitespace /\ x[Len(x)] \notin Whitespace)

\* C9 as stated: from an input without leading or trailing whitespace, slugify
\* gives only lowercase letters, digits and hyphens, with no hyphen at either end.
C9_SlugNoEdgeHyphen ==
    (fnDone /\ IsTrimmed(fnArg)) => (SlugCharsOnly(fnResult.s) /\ NoEdgeHyphen(fnResult.s))

\* ASCII letters and digits
AlphaNum == UpperCase \cup LowerCase \cup DigitChars

\* C9 amended: from an input without leading or trailing whitespace, slugify
\* gives only lowercase letters, digits and hyphens; it has no hyphen at either
\* end when the input begins and ends with an ASCII letter or digit.
C9_SlugCharset ==
    (fnDone /\ IsTrimmed(fnArg)) =>
        /\ SlugCharsOnly(fnResult.s)
        /\ (fnArg # <<>> /\ fnArg[1] \in AlphaNum /\ fnArg[Len(fnArg)] \in AlphaNum)
              => (fnResult.s # <<>> /\ NoEdgeHyphen(fnResult.s))

C9_Witness == /\ fnDone /\ fnArg = <<"A", "!", " ", "1">>
              /\ fnResult.s = <<"a", "-", "1">>

C9_WitnessEdge == /\ fnDone /\ fnArg = <<"!", " ", "a">> /\ fnResult.s = <<"-", "a">>

\* C10: a skipped page leaves the carried level and school as they are; the
\* record of a NameOnly page has the level and school of the last accepted record
\* (0 and "Unknown" when there is none), and a NameOnly page never ends the run.
C10_SkipKeepsCarry ==
    [][ /\ AtPage /\ IsUnresolvedPage(Fields(doc[i + 1])) =>
             (level' = level /\ school' = school)
        /\ AtPage /\ IsNameOnlyPage(Fields(doc[i + 1])) =>
             /\ pc' # "Failed"
             /\ Len(entries') = Len(entries) + 1
             /\ entries'[Len(entries')].level =
                    IF entries = <<>> THEN 0 ELSE entries[Len(entries)].level
             /\ entries'[Len(entries')].school =
                    IF entries = <<>> THEN <<"U", "n", "k", "n", "o", "w", "n">>
                    ELSE entries[Len(entries)].school
      ]_vars

====
